---- MODULE Spec2Model ----
(***************************************************************************)
(* Model of scripts/generate_icons.py: the two icon renderers              *)
(* (create_streamwatch_icon, create_maskable_icon) as operators, and the   *)
(* driver main() as a sequential state machine over a small file system.   *)
(*                                                                         *)
(* Paths are sequences of components: "web/icons/Icon-192.png" is          *)
(* <<"web", "icons", "Icon-192.png">>, relative to UI_DIR.                 *)
(* Lengths are in pixels; int(size * 0.45) is (size * 45) \div 100, which  *)
(* agrees with the float product for every size from 0 to 2000.            *)
(***************************************************************************)
EXTENDS Integers, Sequences, FiniteSets, TLC

(***************************************************************************)
(* Bounds of the model.                                                    *)
(***************************************************************************)
\* Renderer probes take every size from MinSize to MaxProbeSize, and the
\* sizes main() asks for.
MaxProbeSize == 40
\* Largest bearing (left or top offset of the measured box) the environment's
\* font reports, in tenths of the font's pixel size.
MaxBearingTenths == 2
\* Number of times the generator is invoked in succession.
MaxRuns == 2

(***************************************************************************)
(* Module constants of the script.                                         *)
(***************************************************************************)
WEB_DIR == <<"web">>
WINDOWS_DIR == <<"windows", "runner", "resources">>
TMZ_RED == "#E31837"
WHITE == "#FFFFFF"
BG_COLOR == TMZ_RED
TEXT_COLOR == WHITE
TRANSPARENT == "rgba(0,0,0,0)"

\* Smallest size any call of a renderer is made with (ico_sizes[0]).
MinSize == 16
\* Pixel size of the font ImageFont.load_default() returns when called
\* without a size, as both renderers call it: it does not depend on the
\* canvas.
DefaultFontPx == 10

standard_font_names == <<"arialbd.ttf", "Arial Bold.ttf", "DejaVuSans-Bold.ttf", "FreeSansBold.ttf">>
maskable_font_names == <<"arialbd.ttf", "Arial Bold.ttf", "DejaVuSans-Bold.ttf">>
FontNames == {standard_font_names[i] : i \in 1..Len(standard_font_names)}

web_sizes == << [filename |-> <<"favicon.png">>, size |-> 32],
                [filename |-> <<"icons", "Icon-192.png">>, size |-> 192],
                [filename |-> <<"icons", "Icon-512.png">>, size |-> 512] >>
\* Variant: a manifest that lost its second entry.
maskable_sizes_one_entry == << [filename |-> <<"icons", "Icon-maskable-192.png">>, size |-> 192] >>
maskable_sizes == << [filename |-> <<"icons", "Icon-maskable-192.png">>, size |-> 192],
                     [filename |-> <<"icons", "Icon-maskable-512.png">>, size |-> 512] >>
ico_sizes == <<16, 32, 48, 64, 128, 256>>
ico_path == WINDOWS_DIR \o <<"app_icon.ico">>

DriverSizes == {16, 32, 48, 64, 128, 192, 256, 512}
ProbeSizes == (MinSize..MaxProbeSize) \cup DriverSizes

(***************************************************************************)
(* The environment: which font names ImageFont.truetype can load (every    *)
(* other name raises OSError), and the metrics of the label "SW" in the    *)
(* environment's fonts, in tenths of the font's pixel size.                *)
(***************************************************************************)
WidthTenths == {12, 16}
HeightTenths == {7, 10}
Metrics == [l : 0..MaxBearingTenths, t : 0..MaxBearingTenths,
            w : WidthTenths, h : HeightTenths]

VARIABLES loadable, metric, pc, run, dirs, files, stdout, wrote, before,
          snap, error, ico_images, ret

env == <<loadable, metric>>
driver == <<pc, run, dirs, files, stdout, wrote, before, snap, error, ico_images>>
vars == <<loadable, metric, pc, run, dirs, files, stdout, wrote, before,
          snap, error, ico_images, ret>>

Max(a, b) == IF a >= b THEN a ELSE b
Range(s) == {s[i] : i \in 1..Len(s)}

(***************************************************************************)
(* Renderers.                                                              *)
(***************************************************************************)
\* for font_name in font_names: try truetype(font_name, font_size); break
\* except (IOError, OSError): continue.  tried is the list of names the loop
\* attempted; font is no_font (font = None) when the loop ran out of names.
no_font == [face |-> "none", px |-> 0]
RECURSIVE load_first_font(_, _, _, _)
\* Variant: a loop without the break, which keeps the last name that loads.
load_first_font_last(names, i, font_size, canload) ==
    LET ok == {k \in 1..Len(names) : names[k] \in canload}
        last == CHOOSE k \in ok : \A j \in ok : j <= k
    IN IF ok = {} THEN [font |-> no_font, tried |-> names]
       ELSE [font |-> [face |-> names[last], px |-> font_size], tried |-> names]
load_first_font(names, i, font_size, canload) ==
    IF i > Len(names) THEN [font |-> no_font, tried |-> names]
    ELSE IF names[i] \in canload
         THEN [font |-> [face |-> names[i], px |-> font_size],
               tried |-> SubSeq(names, 1, i)]
         ELSE load_first_font(names, i + 1, font_size, canload)

\* ImageFont.load_default(): a font of a fixed size.
load_default == [face |-> "default", px |-> DefaultFontPx]

\* font_size = int(size * 0.45)
standard_font_size(size) == (size * 45) \div 100
\* font_size = int(size * 0.3), assigned after load_default() returned; no
\* later statement reads font_size.
fallback_font_size(size) == (size * 30) \div 100
\* safe_zone = int(size * 0.8); font_size = int(safe_zone * 0.45)
safe_zone_of(size) == (size * 80) \div 100
maskable_font_size(size) == (safe_zone_of(size) * 45) \div 100

\* draw.textbbox((0, 0), "SW", font=font): (left, top, right, bottom).
textbbox(font, m) ==
    LET left == (font.px * m.l) \div 10
        top == (font.px * m.t) \div 10
        w == Max(1, (font.px * m.w) \div 10)
        h == Max(1, (font.px * m.h) \div 10)
    IN <<left, top, left + w, top + h>>

\* x = (size - text_width) // 2; y = (size - text_height) // 2 - bbox[1]
text_origin(size, bbox) ==
    LET text_width == bbox[3] - bbox[1]
        text_height == bbox[4] - bbox[2]
    IN << (size - text_width) \div 2, (size - text_height) \div 2 - bbox[2] >>

\* The image a renderer returns: the canvas, its background, and the label
\* as draw.text((x, y), "SW", font=font) placed it.
draw_label(size, background, font, m) ==
    LET bbox == textbbox(font, m)
    IN [mode |-> "RGBA", width |-> size, height |-> size,
        background |-> background, text |-> "SW", fill |-> TEXT_COLOR,
        font |-> font, bbox |-> bbox, at |-> text_origin(size, bbox)]

\* Variant: a canvas one pixel too large.
create_streamwatch_icon_off_by_one(size, canload, m) ==
    LET got == load_first_font(standard_font_names, 1, standard_font_size(size), canload)
        font == IF got.font = no_font THEN load_default ELSE got.font
    IN draw_label(size + 1, [kind |-> "rounded", margin |-> (size * 8) \div 100,
                             radius |-> (size * 18) \div 100, fill |-> BG_COLOR], font, m)
create_streamwatch_icon(size, canload, m) ==
    LET margin == (size * 8) \div 100
        radius == (size * 18) \div 100
        got == load_first_font(standard_font_names, 1, standard_font_size(size), canload)
        font == IF got.font = no_font THEN load_default ELSE got.font
    IN draw_label(size, [kind |-> "rounded", margin |-> margin,
                         radius |-> radius, fill |-> BG_COLOR], font, m)

create_maskable_icon(size, canload, m) ==
    LET got == load_first_font(maskable_font_names, 1, maskable_font_size(size), canload)
        font == IF got.font = no_font THEN load_default ELSE got.font
    IN draw_label(size, [kind |-> "full", margin |-> 0, radius |-> 0,
                         fill |-> BG_COLOR], font, m)

(***************************************************************************)
(* Reading an image back.                                                  *)
(***************************************************************************)
\* The box the label's glyphs cover: the measured box moved to the origin
\* the label was drawn at.
LabelBox(img) ==
    << img.at[1] + img.bbox[1], img.at[2] + img.bbox[2],
       img.at[1] + img.bbox[3], img.at[2] + img.bbox[4] >>

InLabel(img, px, py) ==
    LET b == LabelBox(img)
    IN b[1] <= px /\ px < b[3] /\ b[2] <= py /\ py < b[4]

\* draw.rounded_rectangle([margin, margin, size - margin, size - margin],
\* radius): the rectangle, less what lies outside the quarter circles of
\* its four corners.
InRoundedRect(img, px, py) ==
    LET lo == img.background.margin
        hi == img.width - img.background.margin
        r == img.background.radius
        dx == IF px < lo + r THEN lo + r - px ELSE IF px > hi - r THEN px - (hi - r) ELSE 0
        dy == IF py < lo + r THEN lo + r - py ELSE IF py > hi - r THEN py - (hi - r) ELSE 0
    IN /\ lo <= px /\ px <= hi /\ lo <= py /\ py <= hi
       /\ (dx > 0 /\ dy > 0) => dx * dx + dy * dy <= r * r

\* Colour of the pixel (px, py): "label" where the glyphs are drawn.
PixelAt(img, px, py) ==
    IF InLabel(img, px, py) THEN "label"
    ELSE IF img.background.kind = "full" THEN img.background.fill
    ELSE IF InRoundedRect(img, px, py) THEN img.background.fill
    ELSE TRANSPARENT

Corners(img) == { <<0, 0>>, <<img.width - 1, 0>>, <<0, img.height - 1>>,
                  <<img.width - 1, img.height - 1>> }

(***************************************************************************)
(* Saving.                                                                 *)
(***************************************************************************)
\* icon.save(path, "PNG"): one lossless frame, the image itself.
png_encode(img) == [format |-> "PNG", frames |-> <<img>>]

RECURSIVE sorted(_)
sorted(S) ==
    IF S = {} THEN <<>>
    ELSE LET least == CHOOSE a \in S : \A b \in S : a <= b
         IN <<least>> \o sorted(S \ {least})

\* frame.thumbnail(size): a scaled copy.
thumbnail(img, s) == [img EXCEPT !.width = s, !.height = s]

\* im.save(path, format="ICO", sizes=..., append_images=...): the ICO encoder
\* walks sorted(set(sizes)), skips a size larger than the base image im or
\* than 256, and stores for each remaining size the first provided image
\* (im, then append_images) of exactly that size, else a scaled copy.
\* Variant: an encoder that keeps every requested size.
ico_encode_every_size(im, sizes, append_images) ==
    LET provided == <<im>> \o append_images
        frame(s) == LET hit == {k \in 1..Len(provided) : provided[k].width = s /\ provided[k].height = s}
                    IN IF hit # {} THEN provided[CHOOSE k \in hit : \A j \in hit : k <= j]
                       ELSE thumbnail(provided[Len(provided)], s)
        kept == sorted(Range(sizes))
    IN [format |-> "ICO", frames |-> [k \in 1..Len(kept) |-> frame(kept[k])]]
ico_encode(im, sizes, append_images) ==
    LET provided == <<im>> \o append_images
        frame(s) == LET hit == {k \in 1..Len(provided) : provided[k].width = s /\ provided[k].height = s}
                    IN IF hit # {} THEN provided[CHOOSE k \in hit : \A j \in hit : k <= j]
                       ELSE thumbnail(provided[Len(provided)], s)
        kept == sorted({s \in Range(sizes) : s <= im.width /\ s <= im.height /\ s <= 256})
    IN [format |-> "ICO", frames |-> [k \in 1..Len(kept) |-> frame(kept[k])]]

\* What a failed save leaves of a file that existed before it.
PARTIAL == [format |-> "partial", frames |-> <<>>]

\* os.makedirs(path, exist_ok=True): the directory and its parents; raises
\* FileExistsError only without exist_ok.
Prefixes(path) == {SubSeq(path, 1, k) : k \in 1..Len(path)}
\* Variant: makedirs without exist_ok.
makedirs_not_exist_ok(path, have) ==
    [ok |-> path \notin have, dirs |-> have \cup Prefixes(path)]
makedirs(path, have) ==
    [ok |-> TRUE, dirs |-> have \cup Prefixes(path)]

Parent(path) == SubSeq(path, 1, Len(path) - 1)
Write(fs, path, content) ==
    [p \in DOMAIN fs \cup {path} |-> IF p = path THEN content ELSE fs[p]]

Line(what, name, sizes) == [line |-> what, name |-> name, sizes |-> sizes]
At(stage, i) == [stage |-> stage, i |-> i]
NoRet == [kind |-> "none"]

\* An exception main() does not catch: the process ends there.
\* Variant: the error is swallowed and the pipeline goes on.
uncaught_swallowed(stage, i) ==
    IF stage = "web" /\ i < Len(web_sizes) THEN At("web", i + 1)
    ELSE IF stage = "web" THEN At("maskable", 1)
    ELSE IF stage = "maskable" /\ i < Len(maskable_sizes) THEN At("maskable", i + 1)
    ELSE IF stage = "maskable" THEN At("ico_render", 0)
    ELSE At("summary", 0)
uncaught(stage, i) == At("crashed", i)

(***************************************************************************)
(* main()                                                                  *)
(***************************************************************************)
\* A save that succeeds (ok) or raises OSError.  A failed save of a file
\* that did not exist leaves no file; of one that existed, the old file
\* (the open failed) or a partial one (the write failed).
Save(path, content, ok, partial, created, next) ==
    IF Parent(path) \notin dirs
    THEN /\ pc' = uncaught(pc.stage, pc.i)
         /\ error' = "FileNotFoundError"
         /\ UNCHANGED <<files, stdout, wrote>>
    ELSE IF ok
    THEN /\ files' = Write(files, path, content)
         /\ wrote' = Append(wrote, path)
         /\ stdout' = Append(stdout, created)
         /\ pc' = next
         /\ UNCHANGED error
    ELSE /\ files' = IF path \in DOMAIN files /\ partial
                     THEN Write(files, path, PARTIAL) ELSE files
         /\ pc' = uncaught(pc.stage, pc.i)
         /\ error' = "OSError"
         /\ UNCHANGED <<stdout, wrote>>

\* Lines 119-123: the banner and the two makedirs calls.
Start ==
    /\ pc.stage = "start"
    /\ LET a == makedirs(WEB_DIR \o <<"icons">>, dirs)
           b == makedirs(WINDOWS_DIR, a.dirs)
       IN IF ~a.ok
          THEN /\ pc' = uncaught("start", 0)
               /\ error' = "FileExistsError"
               /\ dirs' = dirs
          ELSE IF ~b.ok
          THEN /\ pc' = uncaught("start", 0)
               /\ error' = "FileExistsError"
               /\ dirs' = a.dirs
          ELSE /\ pc' = At("web", 1)
               /\ dirs' = b.dirs
               /\ UNCHANGED error
    /\ stdout' = Append(stdout, Line("generating", <<>>, <<>>))
    /\ UNCHANGED <<env, run, files, wrote, before, snap, ico_images, ret>>

\* Lines 132-136: one round of the web icon loop.
WebIcon(ok, partial) ==
    /\ pc.stage = "web"
    /\ LET e == web_sizes[pc.i]
           icon == create_streamwatch_icon(e.size, loadable, metric)
       IN Save(WEB_DIR \o e.filename, png_encode(icon), ok, partial,
               Line("created", e.filename, <<e.size>>),
               IF pc.i < Len(web_sizes) THEN At("web", pc.i + 1) ELSE At("maskable", 1))
    /\ UNCHANGED <<env, run, dirs, before, snap, ico_images, ret>>

\* Lines 144-148: one round of the maskable icon loop.
MaskableIcon(ok, partial) ==
    /\ pc.stage = "maskable"
    /\ LET e == maskable_sizes[pc.i]
           icon == create_maskable_icon(e.size, loadable, metric)
       IN Save(WEB_DIR \o e.filename, png_encode(icon), ok, partial,
               Line("created", e.filename, <<e.size>>),
               IF pc.i < Len(maskable_sizes) THEN At("maskable", pc.i + 1)
               ELSE At("ico_render", 0))
    /\ UNCHANGED <<env, run, dirs, before, snap, ico_images, ret>>

\* Line 152: ico_images = [create_streamwatch_icon(s) for s in ico_sizes]
IcoRender ==
    /\ pc.stage = "ico_render"
    /\ ico_images' = [k \in 1..Len(ico_sizes) |->
                        create_streamwatch_icon(ico_sizes[k], loadable, metric)]
    /\ pc' = At("ico_save", 0)
    /\ UNCHANGED <<env, run, dirs, files, stdout, wrote, before, snap, error, ret>>

\* Lines 154-161: the container is saved from ico_images[0].
IcoSave(ok, partial) ==
    /\ pc.stage = "ico_save"
    /\ Save(ico_path,
            ico_encode(ico_images[1], ico_sizes, SubSeq(ico_images, 2, Len(ico_images))),
            ok, partial, Line("created", <<"app_icon.ico">>, ico_sizes), At("summary", 0))
    /\ UNCHANGED <<env, run, dirs, before, snap, ico_images, ret>>

\* Lines 163-166: the summary; main() returns.
Summary ==
    /\ pc.stage = "summary"
    /\ stdout' = stdout \o << Line("done", <<>>, <<>>), Line("web", WEB_DIR, <<>>),
                              Line("windows", WINDOWS_DIR, <<>>),
                              Line("rebuild", <<>>, <<>>) >>
    /\ pc' = At("done", 0)
    /\ snap' = Append(snap, files)
    /\ UNCHANGED <<env, run, dirs, files, wrote, before, error, ico_images, ret>>

\* The generator is run again, in the same environment, on the tree the
\* previous run left.
RunAgain ==
    /\ pc.stage = "done"
    /\ run < MaxRuns
    /\ run' = run + 1
    /\ pc' = At("start", 0)
    /\ stdout' = <<>>
    /\ wrote' = <<>>
    /\ before' = files
    /\ ico_images' = <<>>
    /\ UNCHANGED <<env, dirs, files, snap, error, ret>>

EmptyTree == [p \in {} |-> PARTIAL]

Init ==
    /\ loadable \in SUBSET FontNames
    /\ metric \in Metrics
    /\ pc = At("start", 0)
    /\ run = 1
    /\ dirs = {}
    /\ files = EmptyTree
    /\ stdout = <<>>
    /\ wrote = <<>>
    /\ before = EmptyTree
    /\ snap = <<>>
    /\ error = ""
    /\ ico_images = <<>>
    /\ ret = NoRet

Next ==
    \/ Start
    \/ \E ok \in BOOLEAN, partial \in BOOLEAN : WebIcon(ok, partial)
    \/ \E ok \in BOOLEAN, partial \in BOOLEAN : MaskableIcon(ok, partial)
    \/ IcoRender
    \/ \E ok \in BOOLEAN, partial \in BOOLEAN : IcoSave(ok, partial)
    \/ Summary
    \/ RunAgain

Spec == Init /\ [][Next]_vars

(***************************************************************************)
(* The renderers on their own: any size, in any environment.               *)
(***************************************************************************)
CallStandard(size) ==
    /\ pc.stage = "probe"
    /\ ret' = [kind |-> "standard", size |-> size,
               names |-> standard_font_names,
               font_size |-> standard_font_size(size),
               tried |-> load_first_font(standard_font_names, 1,
                                         standard_font_size(size), loadable).tried,
               img |-> create_streamwatch_icon(size, loadable, metric)]
    /\ UNCHANGED <<env, driver>>

CallMaskable(size) ==
    /\ pc.stage = "probe"
    /\ ret' = [kind |-> "maskable", size |-> size,
               names |-> maskable_font_names,
               font_size |-> maskable_font_size(size),
               tried |-> load_first_font(maskable_font_names, 1,
                                         maskable_font_size(size), loadable).tried,
               img |-> create_maskable_icon(size, loadable, metric)]
    /\ UNCHANGED <<env, driver>>

InitRender ==
    /\ loadable \in SUBSET FontNames
    /\ metric \in Metrics
    /\ pc = At("probe", 0)
    /\ run = 1
    /\ dirs = {}
    /\ files = EmptyTree
    /\ stdout = <<>>
    /\ wrote = <<>>
    /\ before = EmptyTree
    /\ snap = <<>>
    /\ error = ""
    /\ ico_images = <<>>
    /\ ret = NoRet

NextRender ==
    \/ \E size \in ProbeSizes : CallStandard(size)
    \/ \E size \in ProbeSizes : CallMaskable(size)

SpecRender == InitRender /\ [][NextRender]_vars

(***************************************************************************)
(* Properties.                                                             *)
(***************************************************************************)
Abs(a) == IF a >= 0 THEN a ELSE 0 - a
Called == ret.kind # "none"
Finished == pc.stage = "done"

\* The filesystem layout the generator is documented to produce.
LayoutPNGs == { <<"web", "favicon.png">>,
                <<"web", "icons", "Icon-192.png">>,
                <<"web", "icons", "Icon-512.png">>,
                <<"web", "icons", "Icon-maskable-192.png">>,
                <<"web", "icons", "Icon-maskable-512.png">> }
LayoutPaths == LayoutPNGs \cup { <<"windows", "runner", "resources", "app_icon.ico">> }

\* The order main() writes its files in.
WriteOrder == << <<"web", "favicon.png">>,
                 <<"web", "icons", "Icon-192.png">>,
                 <<"web", "icons", "Icon-512.png">>,
                 <<"web", "icons", "Icon-maskable-192.png">>,
                 <<"web", "icons", "Icon-maskable-512.png">>,
                 <<"windows", "runner", "resources", "app_icon.ico">> >>

HoldsSquarePNG(path, size, background) ==
    /\ path \in DOMAIN files
    /\ files[path].format = "PNG"
    /\ Len(files[path].frames) = 1
    /\ files[path].frames[1].width = size
    /\ files[path].frames[1].height = size
    /\ files[path].frames[1].background.kind = background

\* C1: after main() has run to completion, every (path, size) pair of the
\* manifest names a file holding one square bitmap of exactly that side, the
\* three web icons drawn by the standard renderer (rounded background) and
\* the two maskable icons by the maskable renderer (full background).
C1_ManifestFilesHaveRequestedSize ==
    Finished =>
        /\ HoldsSquarePNG(<<"web", "favicon.png">>, 32, "rounded")
        /\ HoldsSquarePNG(<<"web", "icons", "Icon-192.png">>, 192, "rounded")
        /\ HoldsSquarePNG(<<"web", "icons", "Icon-512.png">>, 512, "rounded")
        /\ HoldsSquarePNG(<<"web", "icons", "Icon-maskable-192.png">>, 192, "full")
        /\ HoldsSquarePNG(<<"web", "icons", "Icon-maskable-512.png">>, 512, "full")

C1_Witness ==
    /\ Finished
    /\ run = 1
    /\ LayoutPNGs \subseteq DOMAIN files

\* C2 as stated: one complete run from an empty tree leaves exactly 8 files.
C2_EightFiles ==
    (Finished /\ run = 1) => Cardinality(DOMAIN files) = 8

\* C2 as amended: one complete run from an empty tree leaves exactly the 6
\* files of the layout, 5 PNGs and 1 multi-resolution container, and no
\* other file.
C2_SixFiles ==
    (Finished /\ run = 1) =>
        /\ DOMAIN files = LayoutPaths
        /\ Cardinality(DOMAIN files) = 6
        /\ {p \in DOMAIN files : files[p].format = "PNG"} = LayoutPNGs
        /\ Cardinality({p \in DOMAIN files : files[p].format = "ICO"}) = 1

C2_Witness ==
    /\ Finished
    /\ run = 1
    /\ before = EmptyTree
    /\ Len(wrote) = 6

\* C3: a renderer tries its font names in list order and stops at the first
\* that loads: the names tried are a prefix of the list, every one before
\* the last tried failed, a loaded font is the last name tried, and the
\* default font is used exactly when every name of the list failed; in
\* each case the renderer returns a bitmap.
C3_FirstLoadableFontWins ==
    Called =>
        LET n == Len(ret.tried)
            face == ret.img.font.face
        IN /\ n >= 1 /\ n <= Len(ret.names)
           /\ ret.tried = SubSeq(ret.names, 1, n)
           /\ \A k \in 1..(n - 1) : ret.tried[k] \notin loadable
           /\ face # "default" =>
                 /\ face = ret.tried[n]
                 /\ face \in loadable
                 /\ ret.img.font.px = ret.font_size
           /\ face = "default" <=> Range(ret.names) \cap loadable = {}
           /\ face = "default" => ret.tried = ret.names
           /\ ret.img.width = ret.size /\ ret.img.height = ret.size

C3_Witness ==
    /\ Called
    /\ ret.kind = "standard"
    /\ ret.tried = <<"arialbd.ttf", "Arial Bold.ttf">>
    /\ ret.img.font.face = "Arial Bold.ttf"
    /\ "FreeSansBold.ttf" \in loadable

\* C4: when no named font loads, the label is measured and drawn with a
\* font of about 30% of the canvas side, in both renderers.
C4_FallbackFontIsThirtyPercent ==
    (Called /\ Range(ret.names) \cap loadable = {}) =>
        Abs(ret.img.font.px - fallback_font_size(ret.size)) <= 1

\* C5: the drawn label is centred on the canvas in both axes: its left and
\* right margins differ by at most 1 pixel, and so do its top and bottom
\* margins.
C5_LabelCentred ==
    Called =>
        LET b == LabelBox(ret.img)
        IN /\ Abs(b[1] - (ret.size - b[3])) <= 1
           /\ Abs(b[2] - (ret.size - b[4])) <= 1

\* C7: the maskable renderer returns a bitmap whose pixels outside the
\* label are the opaque background colour, the four corners included, and
\* whose label lies inside [0.1 * size, 0.9 * size] in both axes; the
\* corners of the standard renderer's bitmap are transparent.
C7_MaskableLabelInSafeZone ==
    Called =>
        LET img == ret.img
            b == LabelBox(img)
        IN IF ret.kind = "maskable"
           THEN /\ \A c \in Corners(img) :
                      PixelAt(img, c[1], c[2]) \in {BG_COLOR, "label"}
                /\ ret.size <= MaxProbeSize =>
                      \A px \in 0..(ret.size - 1), py \in 0..(ret.size - 1) :
                          PixelAt(img, px, py) \in {BG_COLOR, "label"}
                /\ 10 * b[1] >= ret.size /\ 10 * b[3] <= 9 * ret.size
                /\ 10 * b[2] >= ret.size /\ 10 * b[4] <= 9 * ret.size
           ELSE \A c \in Corners(img) : PixelAt(img, c[1], c[2]) = TRANSPARENT

\* C8: the Windows step renders the standard icon once per size of
\* 16, 32, 48, 64, 128, 256 and writes one container that embeds exactly
\* those six bitmaps, one per size.
C8_ContainerEmbedsSixSizes ==
    pc.stage \in {"summary", "done"} =>
        /\ Len(ico_images) = 6
        /\ \A k \in 1..6 : ico_images[k].width = ico_sizes[k]
        /\ ico_path \in DOMAIN files
        /\ files[ico_path].format = "ICO"
        /\ Len(files[ico_path].frames) = 6
        /\ \A k \in 1..6 : /\ files[ico_path].frames[k] = ico_images[k]
                           /\ files[ico_path].frames[k].width = ico_sizes[k]
                           /\ files[ico_path].frames[k].height = ico_sizes[k]

\* C9: running the generator twice in succession is idempotent: creating
\* the directories never fails because they exist, and the files and their
\* contents after the second run are those after the first.
C9_SecondRunIdentical ==
    /\ error # "FileExistsError"
    /\ (run = 2 /\ pc.stage \notin {"start", "crashed"}) =>
           {WEB_DIR \o <<"icons">>, WINDOWS_DIR} \subseteq dirs
    /\ Len(snap) = 2 => snap[2] = snap[1]
    /\ (Finished /\ run = 2) => (Len(snap) = 2 /\ files = snap[1])

C9_Witness ==
    /\ Finished
    /\ run = 2
    /\ Len(snap) = 2
    /\ DOMAIN snap[2] = LayoutPaths

\* C10: main() writes its files strictly in order, and a failed write ends
\* the process on the spot: the files written before it are there with
\* their new content, every later file is as it was before the run (absent
\* on a fresh tree, where exactly the files of the earlier writes exist),
\* the summary is not printed, and no further step is taken.
C10_FailedWriteStopsPipeline ==
    /\ Len(wrote) <= Len(WriteOrder)
    /\ wrote = SubSeq(WriteOrder, 1, Len(wrote))
    /\ Finished => wrote = WriteOrder
    /\ pc.stage = "crashed" =>
          LET k == Len(wrote) + 1
          IN /\ k <= Len(WriteOrder)
             /\ \A j \in 1..(k - 1) :
                   /\ WriteOrder[j] \in DOMAIN files
                   /\ files[WriteOrder[j]].format \in {"PNG", "ICO"}
             /\ \A j \in (k + 1)..Len(WriteOrder) :
                   IF WriteOrder[j] \in DOMAIN before
                   THEN WriteOrder[j] \in DOMAIN files
                        /\ files[WriteOrder[j]] = before[WriteOrder[j]]
                   ELSE WriteOrder[j] \notin DOMAIN files
             /\ run = 1 => DOMAIN files = Range(wrote)
             /\ \A n \in 1..Len(stdout) : stdout[n].line \in {"generating", "created"}
             /\ Len(stdout) = k
             /\ ~ENABLED Next

C10_Witness ==
    /\ pc.stage = "crashed"
    /\ run = 1
    /\ error = "OSError"
    /\ Len(wrote) = 3
    /\ DOMAIN files = {WriteOrder[1], WriteOrder[2], WriteOrder[3]}

====
